---- MODULE Spec2Model ----
(***************************************************************************)
(* Model of financepy/trading/environment.py: the TradingEnvironment       *)
(* object (data, initial_cash, current_step, cash, position, history),     *)
(* its methods __init__, reset, step, run, portfolio_value, current_price  *)
(* and history_dataframe, and the                                          *)
(* caller that invokes them.  Prices, cash and quantities are integers;    *)
(* a Python exception that reaches the caller is recorded in err.          *)
(* Lines 52-56 of the file are the remains of a second docstring inside    *)
(* step (text, no statement); step is modelled from the statements on      *)
(* both sides of it, lines 46-50 and 57-74.                                *)
(***************************************************************************)
EXTENDS Integers, Sequences, FiniteSets, TLC

\* ------------------------------------------------------------------ bounds
\* the longest generated price series (the test table, of 5 rows, is added)
MaxLen == 2

\* default of the initial_cash parameter of __init__
DefaultInitialCash == 100000

\* ------------------------------------------------------------------ inputs
\* what the caller holds when a call returned nothing, a number or a table
Nothing      == [kind |-> "none", val |-> 0]
Number(n)    == [kind |-> "number", val |-> n]
Table(df)    == [kind |-> "table", val |-> df]

RECURSIVE SeqsUpTo(_, _)
SeqsUpTo(S, n) ==
  IF n = 0 THEN {<<>>}
  ELSE LET shorter == SeqsUpTo(S, n - 1)
       IN  shorter \cup {Append(s, x) : s \in {t \in shorter : Len(t) = n - 1}, x \in S}

\* the price table of the unit test and of the example script
TestPrices == <<10, 11, 12, 13, 14>>

PriceVals == {1, 2}

PriceSeries == SeqsUpTo(PriceVals, MaxLen) \cup {TestPrices}

\* A DataFrame with one column: its name, its index labels and its values.
\* first is the label of the first row (a caller's table need not start at 0).
Frame(column, first, values) ==
  [column |-> column,
   index  |-> [i \in 1..Len(values) |-> first + i - 1],
   values |-> values]

\* the tables a caller constructs with: any series labelled from 0, two
\* labelled otherwise, and the table of the test that has no Close column
Tables ==
  {Frame("Close", 0, v) : v \in PriceSeries}
    \cup {Frame("Close", 1, TestPrices), Frame("Close", 5, <<1, 2>>)}
    \cup {Frame("price", 0, <<1, 2, 3>>)}

InitialCashVals == {DefaultInitialCash, 100}

\* What a caller or a strategy may pass to step: an int/float, a string that
\* float() parses ("1"), a string it rejects ("abc"), or None.
Num(n)    == [kind |-> "num", val |-> n]
NumStr(n) == [kind |-> "numstr", val |-> n]
BadStr    == [kind |-> "badstr", val |-> 0]
NoneAct   == [kind |-> "none", val |-> 0]

NoAction  == [kind |-> "unset", val |-> 0]

Actions == {Num(-1), Num(0), Num(2), NumStr(1), BadStr, NoneAct}

NoStrategy == [kind |-> "unset", a |-> 0]

\* Strategies: the constant ones of the test and the example (buy_two,
\* buy_every_step), a seller, and ones that read the state handed to them.
Strategies ==
  {[kind |-> "const", a |-> a] : a \in {-1, 0, 1, 2}}
    \cup {[kind |-> "flip", a |-> 0], [kind |-> "momentum", a |-> 0]}
    \cup {[kind |-> k, a |-> i] : k \in {"noneAt", "raiseAt"}, i \in {0, 1}}

\* ------------------------------------------------------------------ state
VARIABLES
  constructed,   \* an object exists (construction has succeeded once)
  data,          \* self.data
  initial_cash,  \* self.initial_cash
  current_step,  \* self.current_step
  cash,          \* self.cash
  position,      \* self.position
  history,       \* self.history
  pc,            \* the caller's position: "idle", or inside run: "loop", "step"
  op,            \* the operation last called by the caller
  strategy,      \* its strategy, if it is run
  action,        \* the action it handed to step last, if any
  calls,         \* the strategy invocations it made
  ret,           \* what it returned (Nothing if nothing or if it raised)
  err,           \* the exception it raised, "none" if it returned
  fresh,         \* no step/reset/run has been called since construction
  prevRun,       \* ghost: the previous completed run from a fresh construction
                 \* with the same table and initial_cash as the present object
  acts,          \* ghost: the quantities step has applied since the last reset
  before         \* ghost: current_step just before the reset that reset() or
                 \* run() last made (0 once another operation has been called)

obj  == <<constructed, data, initial_cash, current_step, cash, position, history>>
sim  == <<current_step, cash, position, history>>
vars == <<constructed, data, initial_cash, current_step, cash, position, history,
          pc, strategy, action, calls, op, ret, err, fresh, prevRun, acts, before>>

\* ------------------------------------------------------------------ pandas
\* "Close" in data.columns
HasClose(table) == table.column = "Close"

\* data.reset_index(drop=True): the labels become 0..N-1
ResetIndex(table) ==
  [table EXCEPT !.index = [i \in 1..Len(table.values) |-> i - 1]]

\* data.loc[label, "Close"] raises KeyError unless the label is in the index
\* and the column exists
HasLoc(df, label) ==
  /\ df.column = "Close"
  /\ \E i \in 1..Len(df.index) : df.index[i] = label

Loc(df, label) ==
  df.values[CHOOSE i \in 1..Len(df.index) : df.index[i] = label]

\* len(self.data)
LenData(df) == Len(df.values)

Min(a, b) == IF a < b THEN a ELSE b

\* ------------------------------------------------------------------ step
\* a step without the type check
CoercibleUnchecked(a) == TRUE

\* isinstance(action, (int, float)), else float(action) without an exception
Coercible(a) == a.kind \in {"num", "numstr"}

\* the numeric action after lines 46-50
Coerce(a) == a.val

\* a step that clamps to the last row, as current_price does
StepLabelClamped(step, df) == IF step < LenData(df) THEN step ELSE LenData(df) - 1

\* a step that trades at the price of the row it advances to
StepLabelNext(step, df) == step + 1

\* the label step reads the price at
StepLabel(step, df) == step

\* a step that takes 0 as "the default quantity", one unit
StepPositionHoldBuys(pos, act) == IF act # 0 THEN pos + act ELSE pos + 1

\* line 60
StepPosition(pos, act) == IF act # 0 THEN pos + act ELSE pos

\* a step that trades one unit whatever the quantity asked for
StepCashOneUnit(c, act, price) == IF act # 0 THEN c - price ELSE c

\* a step that charges a commission of 1 per trade
StepCashWithFee(c, act, price) == IF act # 0 THEN c - act * price - 1 ELSE c

\* line 61
StepCash(c, act, price) == IF act # 0 THEN c - act * price ELSE c

\* a valuation that forgets the price
StepValueNoPrice(c, pos, price) == c + pos

\* line 63
StepValue(c, pos, price) == c + pos * price

\* lines 65-71
StepRecord(step, price, c, pos) ==
  [step |-> step, price |-> price, cash |-> c, position |-> pos,
   value |-> StepValue(c, pos, price)]

\* an advance that skips a row
NextStepSkip(step) == step + 2

\* line 74
NextStep(step) == step + 1

\* a list whose entries all are the one dict that step keeps writing to
StepHistoryAliased(h, rec) == [i \in 1..(Len(h) + 1) |-> rec]

\* line 64: history.append of a new dict
StepHistory(h, rec) == Append(h, rec)

\* step(a) as a whole: what it raises ("none" if it returns) ...
StepErr(a) ==
  IF ~Coercible(a) THEN "TypeError"
  ELSE IF ~HasLoc(data, StepLabel(current_step, data)) THEN "KeyError"
  ELSE "none"

\* ... and what it does to the object
StepEffect(a) ==
  IF StepErr(a) # "none" THEN UNCHANGED <<sim, acts>>
  ELSE LET act   == Coerce(a)
           price == Loc(data, StepLabel(current_step, data))
           pos   == StepPosition(position, act)
           c     == StepCash(cash, act, price)
       IN  /\ position' = pos
           /\ cash' = c
           /\ history' = StepHistory(history, StepRecord(current_step, price, c, pos))
           /\ current_step' = NextStep(current_step)
           /\ acts' = Append(acts, act)

\* ------------------------------------------------------------------ reset
\* a reset that keeps the list
ResetHistoryKept(h) == h

\* line 30
ResetHistory(h) == <<>>

\* a reset that keeps the position
ResetPositionKept(pos) == pos

\* line 29
ResetPosition(pos) == 0

ResetEffect(ic) ==
  /\ current_step' = 0
  /\ cash' = ic
  /\ position' = ResetPosition(position)
  /\ history' = ResetHistory(history)
  /\ acts' = <<>>

\* ------------------------------------------------------------------ accessors
\* a portfolio_value that reads the first record
portfolio_value_first ==
  IF history = <<>> THEN initial_cash ELSE history[1].value

\* portfolio_value()
portfolio_value ==
  IF history = <<>> THEN initial_cash ELSE history[Len(history)].value

\* current_price, and whether it raises KeyError
CurrentPriceLabel == IF current_step = 0 THEN 0 ELSE Min(current_step, LenData(data) - 1)
CurrentPriceOk == HasLoc(data, CurrentPriceLabel)
current_price == Loc(data, CurrentPriceLabel)

\* history_dataframe(): one row per record, columns in the order of the keys
Columns == <<"step", "price", "cash", "position", "value">>

history_dataframe(h) ==
  [columns |-> IF h = <<>> THEN <<>> ELSE Columns,
   rows    |-> [i \in 1..Len(h) |->
                  <<h[i].step, h[i].price, h[i].cash, h[i].position, h[i].value>>]]

\* ------------------------------------------------------------------ caller
NoRun == [set |-> FALSE, strategy |-> NoStrategy, table |-> history_dataframe(<<>>),
          same |-> FALSE]

Init ==
  /\ constructed = FALSE
  /\ data = Frame("Close", 0, <<>>)
  /\ initial_cash = 0
  /\ current_step = 0
  /\ cash = 0
  /\ position = 0
  /\ history = <<>>
  /\ pc = "idle"
  /\ strategy = NoStrategy
  /\ action = NoAction
  /\ calls = 0
  /\ op = "none"
  /\ ret = Nothing
  /\ err = "none"
  /\ fresh = FALSE
  /\ prevRun = NoRun
  /\ acts = <<>>
  /\ before = 0

\* a constructor that does not check the columns
ConstructOkUnchecked(table) == TRUE

\* lines 19-20: the constructor goes on unless it raises KeyError
ConstructOk(table) == HasClose(table)

Construct(table, ic) ==
  /\ pc = "idle"
  /\ op' = "construct"
  /\ ret' = Nothing
  /\ strategy' = NoStrategy
  /\ action' = NoAction
  /\ calls' = 0
  /\ before' = 0
  /\ UNCHANGED pc
  /\ IF ~ConstructOk(table)
       THEN /\ err' = "KeyError"
            /\ UNCHANGED <<obj, fresh, prevRun, acts>>
       ELSE /\ err' = "none"
            /\ constructed' = TRUE
            /\ data' = ResetIndex(table)
            /\ initial_cash' = ic
            /\ ResetEffect(ic)
            /\ fresh' = TRUE
            /\ prevRun' = IF constructed /\ data' = data /\ ic = initial_cash
                            THEN prevRun ELSE NoRun

\* env.reset()
Reset ==
  /\ pc = "idle"
  /\ constructed
  /\ ResetEffect(initial_cash)
  /\ op' = "reset"
  /\ before' = current_step
  /\ ret' = Nothing
  /\ err' = "none"
  /\ fresh' = FALSE
  /\ strategy' = NoStrategy
  /\ action' = NoAction
  /\ calls' = 0
  /\ UNCHANGED <<constructed, data, initial_cash, pc, prevRun>>

\* env.step(a)
Step(a) ==
  /\ pc = "idle"
  /\ constructed
  /\ StepEffect(a)
  /\ action' = a
  /\ op' = "step"
  /\ before' = 0
  /\ ret' = Nothing
  /\ err' = StepErr(a)
  /\ fresh' = FALSE
  /\ strategy' = NoStrategy
  /\ calls' = 0
  /\ UNCHANGED <<constructed, data, initial_cash, pc, prevRun>>

\* env.portfolio_value()
PortfolioValue ==
  /\ pc = "idle"
  /\ constructed
  /\ op' = "portfolio_value"
  /\ ret' = Number(portfolio_value)
  /\ err' = "none"
  /\ strategy' = NoStrategy
  /\ action' = NoAction
  /\ calls' = 0
  /\ before' = 0
  /\ UNCHANGED <<obj, pc, fresh, prevRun, acts>>

\* env.current_price
CurrentPrice ==
  /\ pc = "idle"
  /\ constructed
  /\ op' = "current_price"
  /\ ret' = IF CurrentPriceOk THEN Number(current_price) ELSE Nothing
  /\ err' = IF CurrentPriceOk THEN "none" ELSE "KeyError"
  /\ strategy' = NoStrategy
  /\ action' = NoAction
  /\ calls' = 0
  /\ before' = 0
  /\ UNCHANGED <<obj, pc, fresh, prevRun, acts>>

\* ------------------------------------------------------------------ run
\* what strategy(self) reads of the state and returns
Momentum ==
  IF history # <<>> /\ current_price > history[Len(history)].price
    THEN Num(2) ELSE Num(-1)

StrategyAction(s) ==
  CASE s.kind = "const"    -> Num(s.a)
    [] s.kind = "flip"     -> IF position <= 0 THEN Num(2) ELSE Num(-1)
    [] s.kind = "momentum" -> Momentum
    [] s.kind = "noneAt"   -> IF current_step = s.a THEN NoneAct ELSE Num(1)
    [] s.kind = "raiseAt"  -> Num(1)

StrategyRaises(s) == s.kind = "raiseAt" /\ current_step = s.a

\* a loop that swallows the strategy's exception and asks again
RunAfterRaiseRetry == "loop"

\* line 91 is in no try block: an exception of the strategy leaves run
RunAfterRaise == "idle"

\* a loop that stops one row early
RunLoopCondEarly(step, n) == step < n - 1

\* a loop that goes one row too far
RunLoopCondLate(step, n) == step <= n

\* the while condition of line 90
RunLoopCond(step, n) == step < n

\* line 89: run calls reset and enters the loop
RunStart(s) ==
  /\ pc = "idle"
  /\ constructed
  /\ ResetEffect(initial_cash)
  /\ pc' = "loop"
  /\ strategy' = s
  /\ action' = NoAction
  /\ calls' = 0
  /\ op' = "run"
  /\ before' = current_step
  /\ ret' = Nothing
  /\ err' = "none"
  /\ UNCHANGED <<constructed, data, initial_cash, fresh, prevRun>>

\* lines 90-91: the loop test holds and the strategy is called
RunStrategy ==
  /\ pc = "loop"
  /\ RunLoopCond(current_step, LenData(data))
  /\ calls' = calls + 1
  /\ IF StrategyRaises(strategy)
       THEN /\ err' = "StrategyError"
            /\ pc' = RunAfterRaise
            /\ fresh' = FALSE
            /\ UNCHANGED action
       ELSE /\ action' = StrategyAction(strategy)
            /\ pc' = "step"
            /\ UNCHANGED <<err, fresh>>
  /\ UNCHANGED <<obj, strategy, op, ret, prevRun, acts, before>>

\* line 92: step(action); an exception leaves run
RunStep ==
  /\ pc = "step"
  /\ StepEffect(action)
  /\ err' = StepErr(action)
  /\ pc' = IF StepErr(action) = "none" THEN "loop" ELSE "idle"
  /\ fresh' = IF StepErr(action) = "none" THEN fresh ELSE FALSE
  /\ UNCHANGED <<constructed, data, initial_cash, strategy, action, calls, op, ret, prevRun,
                  before>>

\* line 93: the loop test fails and run returns history_dataframe()
RunReturnCore ==
  /\ pc = "loop"
  /\ ~RunLoopCond(current_step, LenData(data))
  /\ pc' = "idle"
  /\ ret' = Table(history_dataframe(history))
  /\ fresh' = FALSE
  /\ UNCHANGED <<obj, strategy, action, calls, op, err, acts, before>>

RunReturn == RunReturnCore /\ UNCHANGED prevRun

\* the same, remembering the run if the object was fresh when it started
RunReturnRecorded ==
  /\ RunReturnCore
  /\ prevRun' = IF fresh
                  THEN [set |-> TRUE, strategy |-> strategy, table |-> ret'.val,
                        same |-> prevRun.set /\ prevRun.strategy = strategy]
                  ELSE prevRun

RunLoop == RunStrategy \/ RunStep \/ RunReturn
RunLoopRecorded == RunStrategy \/ RunStep \/ RunReturnRecorded

\* ------------------------------------------------------------------ specifications
\* A caller that uses the whole interface.
Next ==
  \/ \E t \in Tables, ic \in InitialCashVals : Construct(t, ic)
  \/ Reset
  \/ \E a \in Actions : Step(a)
  \/ PortfolioValue
  \/ CurrentPrice
  \/ \E s \in Strategies : RunStart(s)
  \/ RunStrategy
  \/ RunStep
  \/ RunReturn

Spec == Init /\ [][Next]_vars

\* A caller that only constructs objects and runs strategies on them; a run
\* in progress goes on (the loop is synchronous code).
NextRun ==
  \/ \E t \in Tables, ic \in InitialCashVals : Construct(t, ic)
  \/ \E s \in Strategies : RunStart(s)
  \/ RunStrategy
  \/ RunStep
  \/ RunReturnRecorded

SpecRun == Init /\ [][NextRun]_vars /\ WF_vars(RunLoopRecorded)

\* ------------------------------------------------------------------ claims
N == LenData(data)

RECURSIVE SumSeq(_)
SumSeq(q) == IF q = <<>> THEN 0 ELSE q[1] + SumSeq(Tail(q))

\* a run has returned to the caller (and nothing was called since)
RunReturned == pc = "idle" /\ op = "run" /\ err = "none"

\* C1: in every reachable state every record of history has
\* value = cash + position * price, all three taken from that record.
C1_ValueInvariant ==
  \A i \in 1..Len(history) :
    history[i].value = history[i].cash + history[i].position * history[i].price

\* a short position bought back at a price above 1, after a first record
C1_Witness ==
  /\ Len(history) >= 2
  /\ history[1].position < 0
  /\ history[2].position > 0
  /\ history[2].price > 1

\* C2: whatever resets and successful or failed steps were made,
\* len(history) = current_step and the k-th record (0-based) has step k and
\* price data[k].
C2_HistoryMatchesSteps ==
  /\ Len(history) = current_step
  /\ \A i \in 1..Len(history) :
       /\ history[i].step = i - 1
       /\ history[i].price = data.values[i]

\* a direct step has just failed on an object that had taken steps
C2_Witness ==
  /\ op = "step"
  /\ err # "none"
  /\ current_step >= 2
  /\ data.values[1] # data.values[2]

\* C3: when run returns under a strategy that returns the constant a,
\* position = N * a and cash = initial_cash - a * (sum of the prices), and for
\* N >= 1 portfolio_value() = cash + position * (last price); on the test
\* table with initial_cash 100 and a = 2: position 10, cash -20, value 120.
C3_ConstantStrategy ==
  (RunReturned /\ strategy.kind = "const") =>
    /\ position = N * strategy.a
    /\ cash = initial_cash - strategy.a * SumSeq(data.values)
    /\ N >= 1 => portfolio_value = cash + position * data.values[N]
    /\ (data.values = TestPrices /\ initial_cash = 100 /\ strategy.a = 2) =>
         (position = 10 /\ cash = -20 /\ portfolio_value = 120)

\* the run of the unit test has returned
C3_Witness ==
  /\ RunReturned
  /\ strategy = [kind |-> "const", a |-> 2]
  /\ data.values = TestPrices
  /\ initial_cash = 100
  /\ position = 10

\* the strategies that return a number at every call and raise nothing
Numeric(s) == s.kind \in {"const", "flip", "momentum"}

\* the table run returns: N rows, in step order, equal to history_dataframe()
ReturnedAllRows ==
  /\ ret = Table(history_dataframe(history))
  /\ Len(ret.val.rows) = N
  /\ \A i \in 1..N : ret.val.rows[i][1] = i - 1

\* C4: a run with a strategy that returns numbers starts at step 0 with an
\* empty history, calls the strategy once per step, advances the step by one
\* at each step, returns only when current_step = N, and does return, with
\* the table of history_dataframe(): N rows in step order.
C4_RunTerminates ==
  /\ [][(pc = "idle" /\ pc' = "loop") => (current_step' = 0 /\ history' = <<>> /\ calls' = 0)]_vars
  /\ [](pc = "loop" => calls = current_step)
  /\ [](pc = "step" => calls = current_step + 1)
  /\ [][(pc = "step" /\ pc' = "loop") => current_step' = current_step + 1]_vars
  /\ [][(pc = "loop" /\ pc' # "loop") => (current_step < N <=> calls' = calls + 1)]_vars
  /\ [][(pc = "loop" /\ pc' = "idle" /\ err' = "none") =>
         (current_step = N /\ calls' = N /\ ReturnedAllRows')]_vars
  /\ [][(pc # "idle" /\ pc' = "idle" /\ Numeric(strategy)) => err' = "none"]_vars
  /\ \A s \in {t \in Strategies : Numeric(t)} :
       (pc = "loop" /\ strategy = s) ~>
         (RunReturned /\ strategy = s /\ current_step = N /\ calls = N /\ ReturnedAllRows)

\* a state-reading strategy has been run to the end of the test table
C4_Witness ==
  /\ RunReturned
  /\ strategy.kind = "momentum"
  /\ data.values = TestPrices
  /\ calls = 5
  /\ Len(ret.val.rows) = 5

\* C5: the run loop never calls step on an exhausted series, and no run ends
\* with the KeyError of a row that does not exist.
C5_RunNeverStepsPastEnd ==
  /\ pc = "step" => current_step < N
  /\ op = "run" => err # "KeyError"

\* the run loop is about to call step on the last row
C5_Witness ==
  /\ pc = "step"
  /\ N >= 2
  /\ current_step = N - 1

\* C6 as stated (on a series that is not empty): a direct step on an
\* exhausted series raises KeyError whatever the action, and changes nothing.
C6_AnyActionKeyError ==
  [][(pc = "idle" /\ op' = "step" /\ N >= 1 /\ current_step >= N) =>
       (err' = "KeyError" /\ UNCHANGED sim)]_vars

\* C6: a direct step on an exhausted series with a numeric or coercible
\* action raises KeyError; with an action float() rejects it raises TypeError
\* first; in both cases the price is not clamped to the last row and
\* current_step, cash, position and history are unchanged.
C6_StepPastEnd ==
  [][(pc = "idle" /\ op' = "step" /\ current_step >= N) =>
       /\ err' = IF Coercible(action') THEN "KeyError" ELSE "TypeError"
       /\ UNCHANGED sim]_vars

\* a numeric step has just failed on a series run through to its end
C6_Witness ==
  /\ op = "step"
  /\ action = Num(2)
  /\ err = "KeyError"
  /\ N >= 2
  /\ current_step = N
  /\ Len(history) = N

\* C7: a construction with a table that has no Close column raises KeyError
\* and sets nothing: no object comes to exist and no field is written.
C7_MissingCloseRaises ==
  [][\A t \in {u \in Tables : ~HasClose(u)}, ic \in InitialCashVals :
       Construct(t, ic) =>
         (err' = "KeyError" /\ constructed' = constructed /\ UNCHANGED <<obj, fresh>>)]_vars

\* the first construction attempted has failed
C7_Witness ==
  /\ op = "construct"
  /\ err = "KeyError"
  /\ ~constructed

\* C8 as stated: every constructed object has a series of length >= 1.
C8_NonEmptySeries == constructed => N >= 1

\* C9: portfolio_value() returns initial_cash while no step has been recorded
\* (also after a reset that follows steps), else the value of the record of
\* the last step, and changes nothing.
C9_PortfolioValue ==
  [][op' = "portfolio_value" =>
       /\ UNCHANGED <<obj, pc>>
       /\ ret' = Number(IF current_step = 0 THEN initial_cash
                                             ELSE history[current_step].value)]_vars

\* asked after two steps whose records differ in value
C9_Witness ==
  /\ op = "portfolio_value"
  /\ Len(history) >= 2
  /\ history[1].value # history[Len(history)].value
  /\ ret.val = history[Len(history)].value

\* C10: a run from a fresh construction returns the table that the previous
\* run from a fresh construction with the same table, initial_cash and
\* strategy returned.
C10_Deterministic ==
  [][(pc = "loop" /\ pc' = "idle" /\ err' = "none" /\ fresh
        /\ prevRun.set /\ prevRun.strategy = strategy) =>
       ret' = Table(prevRun.table)]_vars

\* a state-reading strategy has been run twice on the test table
C10_Witness ==
  /\ RunReturned
  /\ prevRun.same
  /\ prevRun.strategy.kind = "flip"
  /\ data.values = TestPrices
  /\ Len(prevRun.table.rows) = 5
  /\ ret = Table(prevRun.table)

\* C11: from any state, reset() (called by the caller or by run) yields
\* current_step 0, cash = initial_cash, position 0 and an empty history, and
\* leaves the table and initial_cash as they were; a reset that follows a
\* reset changes nothing; so a run on an object that has run before starts
\* with no record, cash or position of the earlier run and returns N rows.
ResetState ==
  /\ current_step = 0
  /\ cash = initial_cash
  /\ position = 0
  /\ history = <<>>

C11_Reset ==
  /\ [][(op' = "reset" \/ (pc = "idle" /\ pc' = "loop")) =>
          (ResetState' /\ UNCHANGED <<constructed, data, initial_cash>>)]_vars
  /\ [][(op = "reset" /\ op' = "reset") => UNCHANGED obj]_vars
  /\ [](RunReturned =>
          /\ Len(history) = N
          /\ N >= 1 => (history[1].step = 0
                        /\ history[1].position = acts[1]
                        /\ history[1].cash = initial_cash - acts[1] * data.values[1]))

\* a run has returned that started on an object whose series was exhausted
C11_Witness ==
  /\ RunReturned
  /\ N >= 2
  /\ before = N
  /\ position # 0

\* what C12 says current_price returns: the first price at step 0, else the
\* price at min(current_step, N - 1)
ClaimedPriceRow == IF current_step = 0 THEN 1 ELSE Min(current_step, N - 1) + 1

\* C12 as stated: in every reachable state current_price returns the price
\* at row 0 if current_step = 0 and otherwise the price at row
\* min(current_step, N - 1), so the last price once the series is exhausted,
\* without failing, and it changes nothing.
C12_CurrentPrice ==
  [][op' = "current_price" =>
       /\ err' = "none"
       /\ ClaimedPriceRow \in 1..N
       /\ ret' = Number(data.values[ClaimedPriceRow])
       /\ UNCHANGED <<obj, pc>>]_vars

\* the same on the objects whose series is not empty: there C12 holds
C12_OnNonEmptySeries ==
  [][(op' = "current_price" /\ N >= 1) =>
       /\ err' = "none"
       /\ ret' = Number(data.values[ClaimedPriceRow])
       /\ UNCHANGED <<obj, pc>>]_vars

\* step is being called with the action a on a series that is not exhausted,
\* by the caller or by the run loop
StepCalledWith(a) ==
  /\ current_step < N
  /\ \/ pc = "idle" /\ op' = "step" /\ action' = a
     \/ pc = "step" /\ action = a /\ pc' # "step"

\* C13: step(0) on a series that is not exhausted leaves cash and position
\* as they are, appends exactly one record, with that cash and position
\* valued at the price of the current row, and advances current_step by 1.
C13_Hold ==
  [][StepCalledWith(Num(0)) =>
       /\ cash' = cash
       /\ position' = position
       /\ history' = Append(history,
            [step |-> current_step, price |-> data.values[current_step + 1],
             cash |-> cash, position |-> position,
             value |-> cash + position * data.values[current_step + 1]])
       /\ current_step' = current_step + 1]_vars

\* a hold has just been made while a position was held
C13_Witness ==
  /\ op = "step"
  /\ action = Num(0)
  /\ err = "none"
  /\ Len(history) >= 2
  /\ position # 0
  /\ history[Len(history)].price # history[Len(history) - 1].price

\* cash and position are those of the last record, or the reset values if
\* there is none
AtLastAppliedStep ==
  /\ Len(history) = current_step
  /\ cash = IF history = <<>> THEN initial_cash ELSE history[Len(history)].cash
  /\ position = IF history = <<>> THEN 0 ELSE history[Len(history)].position

\* C14: when the strategy returns an action that is no number and that
\* float() rejects, step raises TypeError before it assigns anything; run
\* ends there, the strategy is not asked again, and current_step, cash,
\* position and history are those of the last step that was applied.
C14_InvalidAction ==
  /\ [][(pc = "step" /\ ~(action.kind \in {"num", "numstr"})) =>
          (err' = "TypeError" /\ pc' = "idle" /\ UNCHANGED <<obj, calls>>)]_vars
  /\ [][(pc = "idle" /\ op = "run" /\ err = "TypeError" /\ op' = "run") =>
          pc' = "loop" /\ calls' = 0]_vars
  /\ []((pc = "idle" /\ op = "run" /\ err = "TypeError") =>
          /\ strategy.kind = "noneAt"
          /\ current_step = strategy.a
          /\ calls = current_step + 1
          /\ AtLastAppliedStep)

\* a run has ended with TypeError at its second step
C14_Witness ==
  /\ pc = "idle"
  /\ op = "run"
  /\ err = "TypeError"
  /\ strategy = [kind |-> "noneAt", a |-> 1]
  /\ N >= 2
  /\ Len(history) = 1
  /\ position = 1

\* C15: when the strategy raises at step i of a run, run ends there with that
\* exception: step is not called for step i, the strategy is not called
\* again, and the state is that of the last applied step: current_step = i,
\* len(history) = i, cash and position as in record i - 1 (the reset values
\* if i = 0).
C15_StrategyRaises ==
  /\ [][(pc = "loop" /\ current_step < N
           /\ strategy.kind = "raiseAt" /\ strategy.a = current_step) =>
          (pc' = "idle" /\ err' = "StrategyError" /\ calls' = calls + 1
             /\ UNCHANGED <<obj, action>>)]_vars
  /\ [][(pc = "idle" /\ op = "run" /\ err = "StrategyError" /\ op' = "run") =>
          pc' = "loop" /\ calls' = 0]_vars
  /\ []((op = "run" /\ err = "StrategyError") =>
          /\ pc = "idle"
          /\ current_step = strategy.a
          /\ calls = current_step + 1
          /\ action = (IF current_step = 0 THEN NoAction ELSE Num(1))
          /\ AtLastAppliedStep)

\* a run has ended with the strategy's exception at its second step
C15_Witness ==
  /\ pc = "idle"
  /\ op = "run"
  /\ err = "StrategyError"
  /\ strategy = [kind |-> "raiseAt", a |-> 1]
  /\ N >= 2
  /\ current_step = 1
  /\ Len(history) = 1
  /\ cash = initial_cash - data.values[1]

\* the cost of the quantities q bought at the first Len(q) prices of p
RECURSIVE Cost(_, _)
Cost(q, p) ==
  IF q = <<>> THEN 0
  ELSE Cost(SubSeq(q, 1, Len(q) - 1), p) + q[Len(q)] * p[Len(q)]

\* C16: after the k steps a_0..a_(k-1) applied since the last reset (by the
\* caller or by run, quantities of either sign, nothing checked against cash
\* or position), position = sum of a_i and cash = initial_cash - sum of
\* a_i * price_i: step i trades at the price of row i.
C16_Accumulation ==
  /\ Len(acts) = current_step
  /\ current_step <= N
  /\ position = SumSeq(acts)
  /\ cash = initial_cash - Cost(acts, data.values)

\* cash has gone below zero by direct steps of unequal quantities
C16_Witness ==
  /\ op = "step"
  /\ err = "none"
  /\ acts = <<2, 2, 2, 2, 1>>
  /\ cash < 0
  /\ position = 9

\* a reset is being made: by reset(), by run's first statement, by a
\* construction that succeeds
Resetting ==
  \/ op' = "reset"
  \/ pc = "idle" /\ pc' = "loop"
  \/ op' = "construct" /\ err' = "none"

\* C17: between resets history only grows at its end: a step that succeeds
\* appends exactly one record and leaves the records before it as they were,
\* a step that fails and every other operation leave history as it was; only
\* a reset empties it.
C17_AppendOnly ==
  [][IF Resetting THEN history' = <<>>
     ELSE IF current_step' # current_step
       THEN /\ Len(history') = Len(history) + 1
            /\ SubSeq(history', 1, Len(history)) = history
       ELSE history' = history]_vars

\* a third record has been appended after two that differ from it
C17_Witness ==
  /\ Len(history) >= 3
  /\ history[1] # history[2]
  /\ history[2].cash # history[3].cash
  /\ op = "step"
  /\ err = "none"

\* a step is succeeding, called by the caller or by the run loop
StepSucceeds ==
  \/ pc = "idle" /\ op' = "step" /\ err' = "none"
  \/ pc = "step" /\ pc' = "loop"

\* C18: the value that a step records at row i is the cash and the position
\* held just before the step, valued at the price of row i, whatever the
\* quantity traded: trading costs nothing.
C18_Frictionless ==
  [][StepSucceeds =>
       /\ Len(history') = current_step + 1
       /\ history'[current_step + 1].value =
            cash + position * data.values[current_step + 1]]_vars

\* a purchase of two units has been recorded while a position was held
C18_Witness ==
  /\ op = "step"
  /\ err = "none"
  /\ action = Num(2)
  /\ Len(history) >= 2
  /\ history[Len(history) - 1].position < 0
  /\ history[Len(history)].price > 1

\* what the strategy sees when run calls it at step i (the state in which the
\* loop goes on to step): current_price is the price of row i ...
PriceSeenIsRowPrice ==
  pc = "step" => (CurrentPriceOk /\ current_price = data.values[current_step + 1])

\* ... and step then records that price
PriceSeenIsRecorded ==
  (pc = "step" /\ pc' = "loop") =>
    (CurrentPriceOk /\ history'[Len(history')].price = current_price)

\* C19 as stated: at every strategy invocation of a run current_price is the
\* price of row i, at which the action is then executed and recorded; and
\* after run has returned current_price is the price of the last record.
C19_PriceSeenByStrategy ==
  /\ []PriceSeenIsRowPrice
  /\ [][PriceSeenIsRecorded]_vars
  /\ [](RunReturned =>
          /\ CurrentPriceOk
          /\ history # <<>>
          /\ current_price = history[Len(history)].price)

\* the same with its last part on the objects whose series is not empty:
\* there C19 holds
C19_OnNonEmptySeries ==
  /\ []PriceSeenIsRowPrice
  /\ [][PriceSeenIsRecorded]_vars
  /\ []((RunReturned /\ N >= 1) =>
          /\ CurrentPriceOk
          /\ history # <<>>
          /\ current_price = history[Len(history)].price)

====
